---- MODULE Spec2Model ----
(***************************************************************************)
(* The automation engine of src/auto_channel.rs (auto_channel_staff, the   *)
(* mute-porter policy and the AutoChannelInstance handle) as a state       *)
(* machine.  The server, the key-value cache and the notification queue    *)
(* are the environment: every call the engine makes on them returns one of *)
(* the results its signature allows.                                       *)
(***************************************************************************)
EXTENDS Integers, Sequences, FiniteSets

(* ------------------------------ bounds -------------------------------- *)

\* capacity of the mpsc event channel between the handle and the engine
MaxQueue == 1
\* the server reports a name collision only for names with fewer than
\* MaxCollide appended "1"s
MaxCollide == 2
\* the requests written to one connection whose responses are still unread
MaxOutstanding == 3
\* the longest text handed to a codec function, in characters and tokens
MaxText == 5
\* the size of the read buffer, scaled down from the 512 bytes of the source
BUFFER_SIZE == 4
\* how many bytes of responses may sit unread between the server and read_data
MaxWire == 8

(* ------------------------- program constants -------------------------- *)

NameInUse == 771
InvalidChannel == 768
DefaultPermId == 133
DefaultPermValue == 75

\* error codes a query can fail with
ErrCodes == {InvalidChannel, NameInUse, 1024}

(* --------------------------- configuration ---------------------------- *)

monitor_channels == <<10, 11>>
privilege_group == 5
\* monitored channel -> configured extra permissions
channel_permissions == [c \in {10} |-> <<<<86, 1>>>>]
moved_message == "moved"
mp_monitor_channel == 10
mp_target_channel == 40
mp_whitelist == {6}

who_am_i == [client_id |-> 1, client_database_id |-> 1]
server_id == "srv"

\* channel ids the server hands out for created channels
NewCids == {31}

(* ------------------------------ clients ------------------------------- *)

Client(clid, dbid, type, nick, ch) ==
    [client_id |-> clid, client_database_id |-> dbid, client_type |-> type,
     client_nickname |-> nick, channel_id |-> ch]

\* the engine itself and a query client sit in channel 10
Residents == << Client(1, 1, 0, "Bot", 10), Client(4, 7, 1, "Query", 10) >>

\* what clientlist answers at the head of a scan: Alice in a monitored or an
\* unmonitored channel, Bob in the second monitored channel
Snapshots ==
    { Residents \o << Client(2, 5, 0, "Alice", a), Client(3, 6, 0, "Bob", 11) >> :
      a \in {10, 20} }

\* what clientlist answers to the mute porter: Bob may also sit in channel 10
PorterSnapshots ==
    { Residents \o << Client(2, 5, 0, "Alice", a), Client(3, 6, 0, "Bob", b) >> :
      a \in {10, 20}, b \in {10, 11} }

client_is_user(client) == client.client_type = 0

(* ------------------------- text conversions --------------------------- *)

Digit == <<"0", "1", "2", "3", "4", "5", "6", "7", "8", "9">>

RECURSIVE to_string(_)
\* i64::to_string for the non-negative ids of the model
to_string(n) ==
    IF n < 10 THEN <<Digit[n + 1]>>
    ELSE to_string(n \div 10) \o <<Digit[(n % 10) + 1]>>

DigitValue(d) == CHOOSE i \in 0..9 : Digit[i + 1] = d

RECURSIVE ParseFrom(_, _)
ParseFrom(s, acc) ==
    IF s = <<>> THEN acc ELSE ParseFrom(Tail(s), acc * 10 + DigitValue(Head(s)))

\* str::parse::<i64>: <<n>> for a digit string, <<>> for anything else
Parse(s) ==
    IF s # <<>> /\ \A i \in 1..Len(s) : \E j \in 1..10 : Digit[j] = s[i]
    THEN <<ParseFrom(s, 0)>>
    ELSE <<>>

build_redis_key(client_database_id, sid, channel_id) ==
    <<"ts_autochannel", to_string(client_database_id), sid, to_string(channel_id)>>

\* the key the scan formats inline
ScanKey(client) ==
    <<"ts_autochannel", to_string(client.client_database_id), server_id,
      to_string(client.channel_id)>>

AllKeys == { build_redis_key(d, server_id, c) : d \in {1, 5, 6, 7}, c \in {10, 11, 20} }

\* the name of the first creation attempt
FirstName(client) == <<client.client_nickname, "'s channel">>

InMonitor(ch) == \E i \in 1..Len(monitor_channels) : monitor_channels[i] = ch

(* ------------------------------ events -------------------------------- *)

Terminate == [type |-> "Terminate", client_id |-> 0, channel_id |-> 0, uid |-> ""]
ShouldRefresh == [type |-> "ShouldRefresh", client_id |-> 0, channel_id |-> 0, uid |-> ""]
Update(view) ==
    [type |-> "Update", client_id |-> view.client_id, channel_id |-> view.channel_id,
     uid |-> ""]
DeleteChannel(user_id, uid) ==
    [type |-> "DeleteChannel", client_id |-> user_id, channel_id |-> 0, uid |-> uid]

\* the views an observer hands to the handle
Views == { [client_id |-> c, channel_id |-> ch] : c \in {1, 2}, ch \in {10, 20} }

\* the database id clientgetdbidfromuid answers for a unique id
DbIdOfUid(uid) == IF uid = "abc" THEN 5 ELSE 6

(* ------------------------------ state --------------------------------- *)

VARIABLES
    pc,              \* position of auto_channel_staff
    should_refresh,
    skip_sleep,
    events,          \* the mpsc channel
    closed,          \* every sender of the channel has been dropped
    sender,          \* the handle holds Some(sender)
    kv,              \* the key-value cache: key -> <<>> or <<string>>
    clients,         \* the client list of the running scan
    idx,             \* position of the scan in clients
    name,            \* the channel name being tried
    create_new,
    target_channel,
    trace,           \* the calls issued by the running handler
    cause,           \* why the session was aborted
    logged_out,      \* a logout has been attempted
    config,          \* mute-porter and user-map enablement
    returned,        \* <<call, result>> when the latest step was a handle call
    outstanding,     \* SocketConn: requests written, responses not yet read
    arrived,         \* SocketConn: how many of these responses have arrived
    exchange,        \* SocketConn: the latest operation on the connection
    input,           \* codec: the text a codec function is applied to
    output,          \* codec: what the function returned
    wire,            \* read_data: bytes the server sent, not yet at the socket
    socket,          \* read_data: bytes at the socket, not yet read
    reading,         \* read_data: a call is in its loop
    accumulated,     \* read_data: the local ret of the running call
    read_result      \* read_data: what the latest call returned

\* the engine and its handle
engine_vars == <<pc, should_refresh, skip_sleep, events, closed, sender, kv, clients,
                 idx, name, create_new, target_channel, trace, cause, logged_out,
                 config, returned>>

\* the connection and the codec of src/socketlib.rs
\* the byte stream under read_data
read_vars == <<wire, socket, reading, accumulated, read_result>>

conn_vars == <<outstanding, arrived, exchange, input, output, read_vars>>

vars == <<engine_vars, conn_vars>>

Configs == { [mute_porter |-> TRUE, user_map |-> TRUE],
             [mute_porter |-> FALSE, user_map |-> FALSE] }

\* one call issued by the engine: c is the client being served, who the client
\* a move or a message is addressed to
Op(op, c, who, ch, key, text, val) ==
    [op |-> op, c |-> c, who |-> who, ch |-> ch, key |-> key, text |-> text, val |-> val]

\* the state after construction of the handle and the engine task
EngineInit ==
    /\ sender \in BOOLEAN
    /\ pc = IF sender THEN "boot" ELSE "none"
    /\ should_refresh = FALSE
    /\ skip_sleep = TRUE
    /\ events = <<>>
    /\ closed = FALSE
    /\ kv = [k \in AllKeys |-> <<>>]
    /\ clients = <<>>
    /\ idx = 0
    /\ name = <<>>
    /\ create_new = FALSE
    /\ target_channel = 0
    /\ trace = <<>>
    /\ cause = ""
    /\ logged_out = FALSE
    /\ config \in Configs
    /\ returned = <<>>

\* no operation has been made on the connection
\* no codec function has been applied
NoOutput == [fn |-> "", debug |-> FALSE, kind |-> "", code |-> 0, text |-> <<>>]

NoExchange == [cmd |-> "", phase |-> "idle", reply |-> <<>>]

\* read_data has not been called
NoRead == [kind |-> "", text |-> <<>>]

StreamAtRest ==
    /\ wire = <<>>
    /\ socket = <<>>
    /\ reading = FALSE
    /\ accumulated = <<>>
    /\ read_result = NoRead

Init ==
    /\ EngineInit
    /\ outstanding = <<>>
    /\ arrived = 0
    /\ exchange = NoExchange
    /\ input = <<>>
    /\ output = NoOutput
    /\ StreamAtRest

scan_vars == <<clients, idx, name, create_new, target_channel>>

\* the receiver is dropped when auto_channel_staff returns, and the events
\* still in the channel with it
Receiver(queue) == IF pc' \in {"done", "aborted"} THEN <<>> ELSE queue

\* `?` on an error: the function returns, nothing else runs
Abort(why) ==
    /\ pc' = "aborted"
    /\ cause' = why

(* ---------------------------- bootstrap ------------------------------- *)

\* change_nickname, who_am_i, query_server_info: each failure returns
Bootstrap ==
    /\ pc = "boot"
    /\ \E ok \in BOOLEAN :
         IF ok THEN pc' = "loop" /\ cause' = cause ELSE Abort("bootstrap")
    /\ returned' = <<>>
    /\ events' = Receiver(events)
    /\ UNCHANGED conn_vars
    /\ UNCHANGED <<should_refresh, skip_sleep, closed, sender, kv, scan_vars,
                   trace, logged_out, config>>

(* ------------------------------ loop ---------------------------------- *)

\* top of the loop: wait unless skip_sleep, which is consumed
LoopTop ==
    /\ pc = "loop"
    /\ IF skip_sleep
       THEN skip_sleep' = FALSE /\ pc' = "query"
       ELSE skip_sleep' = skip_sleep /\ pc' = "wait"
    /\ clients' = <<>> /\ idx' = 0 /\ name' = <<>> /\ create_new' = FALSE
    /\ target_channel' = 0
    /\ trace' = <<>>
    /\ returned' = <<>>
    /\ UNCHANGED conn_vars
    /\ UNCHANGED <<should_refresh, events, closed, sender, kv, cause, logged_out, config>>

\* recv() hands the loop the event at the head of the channel
Receives(type) ==
    /\ pc = "wait"
    /\ events # <<>>
    /\ Head(events).type = type

Received(type) ==
    /\ Receives(type)
    /\ events' = Tail(events)

\* the event recv() handed to the loop
Consumed(ev) == Op("recv", 0, ev.client_id, ev.channel_id, <<>>, <<ev.type, ev.uid>>, <<>>)

\* Terminate taken like any other event
AfterTerminateIgnored == "loop"

\* Terminate breaks out of the loop
AfterTerminate == "logout"

RecvTerminate ==
    /\ Received("Terminate")
    /\ pc' = AfterTerminate
    /\ trace' = <<Consumed(Head(events))>>
    /\ returned' = <<>>
    /\ UNCHANGED conn_vars
    /\ UNCHANGED <<should_refresh, skip_sleep, closed, sender, kv, scan_vars, cause,
                   logged_out, config>>

\* after an Update of the engine's own client: continue; of another: scan
AfterUpdate(view) == IF view.client_id = who_am_i.client_id THEN "loop" ELSE "query"

RecvUpdate ==
    /\ Received("Update")
    /\ pc' = AfterUpdate(Head(events))
    /\ trace' = <<Consumed(Head(events))>>
    /\ returned' = <<>>
    /\ UNCHANGED conn_vars
    /\ UNCHANGED <<should_refresh, skip_sleep, closed, sender, kv, scan_vars, cause,
                   logged_out, config>>

\* the keys a DeleteChannel deletes, in the order of the deletes
DeleteKeys(dbid) ==
    [i \in 1..Len(monitor_channels) |->
        build_redis_key(dbid, server_id, monitor_channels[i])]

DeleteOps(dbid, failing) ==
    [i \in 1..Len(monitor_channels) |->
        Op("cache_delete", 0, 0, 0, DeleteKeys(dbid)[i],
           IF i \in failing THEN <<"err">> ELSE <<>>, <<>>)]

ReceivedNotice(client_id) == Op("notify", 0, client_id, 0, <<>>, <<"Received.">>, <<>>)

\* the handler giving up at the first delete that fails
DeleteChannelOpsStopping(client_id, dbid, failing) ==
    IF failing = {}
    THEN DeleteOps(dbid, failing) \o <<ReceivedNotice(client_id)>>
    ELSE SubSeq(DeleteOps(dbid, failing), 1,
                CHOOSE i \in failing : \A j \in failing : i <= j)

\* the calls of the DeleteChannel handler once the unique id is resolved;
\* failing holds the positions of the deletes that fail: each is logged and
\* the loop goes on
DeleteChannelOps(client_id, dbid, failing) ==
    DeleteOps(dbid, failing) \o <<ReceivedNotice(client_id)>>

RecvDeleteChannel ==
    /\ Receives("DeleteChannel")
    /\ LET ev == Head(events)
           resolve == Op("clientgetdbidfromuid", 0, 0, 0, <<>>, <<ev.uid>>, <<>>)
       IN \E resolved \in BOOLEAN :
            IF ~resolved
            THEN /\ Abort("resolve_uid")
                 /\ trace' = <<Consumed(ev), resolve>>
                 /\ kv' = kv
            ELSE \E failing \in SUBSET (1..Len(monitor_channels)) :
                   LET dbid == DbIdOfUid(ev.uid)
                       gone == { DeleteKeys(dbid)[i] :
                                   i \in (1..Len(monitor_channels)) \ failing }
                   IN /\ trace' = <<Consumed(ev), resolve>>
                                   \o DeleteChannelOps(ev.client_id, dbid, failing)
                      /\ kv' = [k \in AllKeys |-> IF k \in gone THEN <<>> ELSE kv[k]]
                      /\ pc' = "query"
                      /\ cause' = cause
    /\ events' = Receiver(Tail(events))
    /\ returned' = <<>>
    /\ UNCHANGED conn_vars
    /\ UNCHANGED <<should_refresh, skip_sleep, closed, sender, scan_vars, logged_out,
                   config>>

\* the scan left to the next timer expiry
AfterShouldRefreshDeferred == "loop"

\* where the loop goes after a ShouldRefresh has set the flag
AfterShouldRefresh == "query"

RecvShouldRefresh ==
    /\ Received("ShouldRefresh")
    /\ should_refresh' = TRUE
    /\ pc' = AfterShouldRefresh
    /\ trace' = <<Consumed(Head(events))>>
    /\ returned' = <<>>
    /\ UNCHANGED conn_vars
    /\ UNCHANGED <<skip_sleep, closed, sender, kv, scan_vars, cause, logged_out, config>>

\* recv() answers None: every sender is gone and the channel is empty
RecvClosed ==
    /\ pc = "wait"
    /\ events = <<>>
    /\ closed
    /\ pc' = "logout"
    /\ trace' = <<>>
    /\ returned' = <<>>
    /\ UNCHANGED conn_vars
    /\ UNCHANGED <<should_refresh, skip_sleep, events, closed, sender, kv, scan_vars,
                   cause, logged_out, config>>

(* --------------------------- mute porter ------------------------------ *)

InfoResults == {"err", "none", "muted", "unmuted"}

\* the whitelist test dropped from the condition
mp_selected_unlisted(client) ==
    /\ client_is_user(client)
    /\ client.channel_id = mp_monitor_channel

mp_selected(client) ==
    /\ client_is_user(client)
    /\ client.channel_id = mp_monitor_channel
    /\ client.client_database_id \notin mp_whitelist

\* the calls mute_porter_function issues for one client: info[clid] is what
\* query_client_info answers, recorded with the call; a failing move is logged
mp_client_ops(client, info) ==
    IF ~mp_selected(client) THEN <<>>
    ELSE <<Op("clientinfo", 0, client.client_id, 0, <<>>,
              <<info[client.client_id]>>, <<>>)>>
         \o (IF info[client.client_id] = "muted"
             THEN <<Op("clientmove", 0, client.client_id, mp_target_channel,
                       <<>>, <<>>, <<>>)>>
             ELSE <<>>)

RECURSIVE mp_ops(_, _)
mp_ops(list, info) ==
    IF list = <<>> THEN <<>>
    ELSE mp_client_ops(Head(list), info) \o mp_ops(Tail(list), info)

\* the result of mute_porter_function: Err when the client list query fails
mute_porter_function(listed) == IF listed THEN "ok" ELSE "err"

\* what `mute_porter_function(...).await?` does with the result
AfterMutePorter(result) == IF result = "err" THEN "aborted" ELSE "polling"

Keepalive == Op("whoami", 0, 0, 0, <<>>, <<>>, <<>>)
ListClients == Op("clientlist", 0, 0, 0, <<>>, <<>>, <<>>)
\* the client list query of the mute porter, answered with list
Listed(list) == Op("clientlist", 0, 0, 0, <<>>, <<>>, list)

\* no event within 30 s: keep-alive, mute porter when enabled, and a scan only
\* when a refresh was requested
TimerExpiry ==
    /\ pc = "wait"
    /\ events = <<>>
    /\ ~closed
    /\ \E keepalive_ok \in BOOLEAN :
         IF config.mute_porter
         THEN \E listed \in BOOLEAN :
                IF AfterMutePorter(mute_porter_function(listed)) = "aborted"
                THEN /\ Abort("mute_porter")
                     /\ trace' = <<Keepalive, ListClients>>
                ELSE \E list \in PorterSnapshots :
                     \E info \in [{ list[i].client_id :
                                      i \in { j \in 1..Len(list) : mp_selected(list[j]) } }
                                    -> InfoResults] :
                       /\ trace' = <<Keepalive, Listed(list)>>
                                   \o (IF listed THEN mp_ops(list, info) ELSE <<>>)
                       /\ pc' = IF should_refresh THEN "query" ELSE "loop"
                       /\ cause' = cause
         ELSE /\ trace' = <<Keepalive>>
              /\ pc' = IF should_refresh THEN "query" ELSE "loop"
              /\ cause' = cause
    /\ returned' = <<>>
    /\ events' = Receiver(events)
    /\ UNCHANGED conn_vars
    /\ UNCHANGED <<should_refresh, skip_sleep, closed, sender, kv, scan_vars,
                   logged_out, config>>

(* ------------------------------ logout -------------------------------- *)

Logout ==
    /\ pc = "logout"
    /\ logged_out' = TRUE
    /\ pc' = "done"
    /\ trace' = <<Op("quit", 0, 0, 0, <<>>, <<>>, <<>>)>>
    /\ returned' = <<>>
    /\ events' = Receiver(events)
    /\ UNCHANGED conn_vars
    /\ UNCHANGED <<should_refresh, skip_sleep, closed, sender, kv, scan_vars,
                   cause, config>>

(* ------------------------------- scan --------------------------------- *)

Cur == clients[idx]

NextClient ==
    /\ idx' = idx + 1
    /\ pc' = "client"

HasPermissions(ch) == ch \in DOMAIN channel_permissions

\* the step of the swapped order: the cache entry is written before the
\* engine has moved itself out
StepAfterSetFirst(step) ==
    CASE step = "create" -> "group"
      [] step = "group" -> "perm"
      [] step = "perm" -> IF HasPermissions(Cur.channel_id) THEN "perm_extra" ELSE "move"
      [] step = "perm_extra" -> "move"
      [] step = "move" -> "notify"
      [] step = "notify" -> IF create_new THEN "set" ELSE "next"
      [] step = "set" -> "self_move"
      [] step = "self_move" -> "next"

\* the step that follows a completed step of one client's processing; "next"
\* is the end of the loop body
StepAfter(step) ==
    CASE step = "create" -> "group"
      [] step = "group" -> "perm"
      [] step = "perm" -> IF HasPermissions(Cur.channel_id) THEN "perm_extra" ELSE "move"
      [] step = "perm_extra" -> "move"
      [] step = "move" -> "notify"
      [] step = "notify" -> IF create_new THEN "self_move" ELSE "next"
      [] step = "self_move" -> "set"
      [] step = "set" -> "next"

Goto(step) ==
    IF step = "next" THEN NextClient ELSE pc' = step /\ idx' = idx

\* query_clients at the head of a scan: a failure is logged and the loop
\* continues
QueryClients ==
    /\ pc = "query"
    /\ \E ok \in BOOLEAN :
         IF ok
         THEN \E list \in Snapshots :
                /\ clients' = list
                /\ idx' = 1
                /\ pc' = "client"
         ELSE /\ pc' = "loop"
              /\ UNCHANGED <<clients, idx>>
    /\ returned' = <<>>
    /\ UNCHANGED conn_vars
    /\ UNCHANGED <<should_refresh, skip_sleep, events, closed, sender, kv, name,
                   create_new, target_channel, trace, cause, logged_out, config>>

\* the filter without its monitored-channel test
SkippedIgnoringChannel(client) ==
    \/ client.client_database_id = who_am_i.client_database_id
    \/ client.client_type = 1

\* the clients a scan passes over
Skipped(client) ==
    \/ client.client_database_id = who_am_i.client_database_id
    \/ ~InMonitor(client.channel_id)
    \/ client.client_type = 1

\* the lookup with its answer dropped
CachedTargetForgotten(value) == <<>>

\* Option<i64> read from the cache value: a value that does not parse counts
\* as absent
CachedTarget(value) == IF value = <<>> THEN <<>> ELSE Parse(value[1])

\* per client: the filter, then the cache lookup that decides between the
\* cached channel and a fresh provisioning
ClientStart ==
    /\ pc = "client"
    /\ idx <= Len(clients)
    /\ IF Skipped(Cur)
       THEN /\ NextClient
            /\ trace' = <<>>
            /\ UNCHANGED <<name, create_new, target_channel, cause>>
       ELSE LET key == ScanKey(Cur)
                ret == CachedTarget(kv[key])
            IN \E ok \in BOOLEAN :
                    IF ~ok
                    THEN /\ trace' = <<Op("cache_get", Cur.client_id, 0, 0, key,
                                          <<"err">>, <<>>)>>
                         /\ Abort("cache_get")
                         /\ UNCHANGED <<idx, name, create_new, target_channel>>
                    ELSE /\ trace' = <<Op("cache_get", Cur.client_id, 0, 0, key,
                                          <<>>, kv[key])>>
                         /\ create_new' = (ret = <<>>)
                         /\ IF ret = <<>>
                            THEN /\ name' = FirstName(Cur)
                                 /\ target_channel' = 0
                                 /\ pc' = "create"
                            ELSE /\ name' = <<>>
                                 /\ target_channel' = ret[1]
                                 /\ pc' = "move"
                         /\ UNCHANGED <<idx, cause>>
    /\ returned' = <<>>
    /\ events' = Receiver(events)
    /\ UNCHANGED conn_vars
    /\ UNCHANGED <<should_refresh, skip_sleep, closed, sender, kv, clients,
                   logged_out, config>>

CreateResults ==
    [ok : {TRUE}, v : NewCids] \cup [ok : {FALSE}, v : ErrCodes]

\* the server answers name-in-use only while the name is short enough
CanAnswer(r, nm) ==
    (~r.ok /\ r.v = NameInUse) => Len(nm) - Len(FirstName(Cur)) < MaxCollide

\* the retry with the name left as it was
RetryNameUnchanged(nm) == nm

\* name.push('1')
RetryName(nm) == Append(nm, "1")

\* one pass of the creation loop
CreateChannel ==
    /\ pc = "create"
    /\ \E r \in CreateResults :
         /\ CanAnswer(r, name)
         /\ trace' = Append(trace, Op("channelcreate", Cur.client_id, 0, Cur.channel_id,
                                      <<>>, name,
                                      IF r.ok THEN <<to_string(r.v)>>
                                      ELSE <<"error", to_string(r.v)>>))
         /\ IF r.ok
            THEN /\ target_channel' = r.v
                 /\ Goto(StepAfter("create"))
                 /\ UNCHANGED name
            ELSE IF r.v = NameInUse
                 THEN /\ name' = RetryName(name)
                      /\ pc' = "create"
                      /\ UNCHANGED <<target_channel, idx>>
                 ELSE /\ NextClient
                      /\ UNCHANGED <<name, target_channel>>
    /\ returned' = <<>>
    /\ UNCHANGED conn_vars
    /\ UNCHANGED <<should_refresh, skip_sleep, events, closed, sender, kv, clients,
                   create_new, cause, logged_out, config>>

\* a failing permission step ends the serving of the client
AfterPermissionStepChecked(ok, next) == IF ok THEN next ELSE "next"

\* a permission step's result is logged and dropped
AfterPermissionStep(ok, next) == next

SetClientChannelGroup ==
    /\ pc = "group"
    /\ \E ok \in BOOLEAN :
         /\ trace' = Append(trace, Op("setclientchannelgroup", Cur.client_id,
                                      Cur.client_database_id, target_channel, <<>>,
                                      IF ok THEN <<>> ELSE <<"err">>,
                                      <<to_string(privilege_group)>>))
         /\ Goto(AfterPermissionStep(ok, StepAfter("group")))
    /\ returned' = <<>>
    /\ UNCHANGED conn_vars
    /\ UNCHANGED <<should_refresh, skip_sleep, events, closed, sender, kv, clients, name,
                   create_new, target_channel, cause, logged_out, config>>

AddDefaultPermission ==
    /\ pc = "perm"
    /\ \E ok \in BOOLEAN :
         /\ trace' = Append(trace, Op("channeladdperm", Cur.client_id, 0, target_channel,
                                      <<>>, IF ok THEN <<>> ELSE <<"err">>,
                                      <<to_string(DefaultPermId),
                                        to_string(DefaultPermValue)>>))
         /\ Goto(AfterPermissionStep(ok, StepAfter("perm")))
    /\ returned' = <<>>
    /\ UNCHANGED conn_vars
    /\ UNCHANGED <<should_refresh, skip_sleep, events, closed, sender, kv, clients, name,
                   create_new, target_channel, cause, logged_out, config>>

AddChannelPermissions ==
    /\ pc = "perm_extra"
    /\ \E ok \in BOOLEAN :
         /\ trace' = Append(trace, Op("channeladdperm_extra", Cur.client_id, 0,
                                      target_channel, <<>>,
                                      IF ok THEN <<>> ELSE <<"err">>, <<>>))
         /\ Goto(AfterPermissionStep(ok, StepAfter("perm_extra")))
    /\ returned' = <<>>
    /\ UNCHANGED conn_vars
    /\ UNCHANGED <<should_refresh, skip_sleep, events, closed, sender, kv, clients, name,
                   create_new, target_channel, cause, logged_out, config>>

MoveResults == [ok : {TRUE}, v : {0}] \cup [ok : {FALSE}, v : ErrCodes]

\* the channel the client is moved into
MoveTarget == target_channel

\* the stale entry is dropped but the flag is left as it was
ForcedRescanForgotten == skip_sleep

\* skip_sleep after a stale cache entry has been dropped
ForcedRescan == TRUE

\* every failing move taken for a stale cache entry
MoveErrorIsStaleAlways(code) == TRUE

\* e.code() == 768
MoveErrorIsStale(code) == code = InvalidChannel

\* the move of the client; the invalid-channel code drops the cache entry and
\* asks for an immediate rescan
MoveClient ==
    /\ pc = "move"
    /\ \E r \in MoveResults :
         LET move == Op("clientmove", Cur.client_id, Cur.client_id, MoveTarget,
                        <<>>, <<>>, IF r.ok THEN <<>> ELSE <<to_string(r.v)>>)
             key == ScanKey(Cur)
         IN
            IF r.ok
            THEN /\ trace' = Append(trace, move)
                 /\ Goto(StepAfter("move"))
                 /\ UNCHANGED <<kv, skip_sleep, cause>>
            ELSE IF MoveErrorIsStale(r.v)
                 THEN /\ trace' = trace \o <<move, Op("cache_delete", Cur.client_id, 0,
                                                      0, key, <<>>, <<>>)>>
                      /\ \E deleted \in BOOLEAN :
                           IF deleted
                           THEN /\ kv' = [kv EXCEPT ![key] = <<>>]
                                /\ skip_sleep' = ForcedRescan
                                /\ NextClient
                                /\ cause' = cause
                           ELSE /\ Abort("cache_delete")
                                /\ UNCHANGED <<kv, skip_sleep, idx>>
                 ELSE /\ trace' = Append(trace, move)
                      /\ NextClient
                      /\ UNCHANGED <<kv, skip_sleep, cause>>
    /\ returned' = <<>>
    /\ events' = Receiver(events)
    /\ UNCHANGED conn_vars
    /\ UNCHANGED <<should_refresh, closed, sender, clients, name, create_new,
                   target_channel, logged_out, config>>

\* the "moved" message; a failing enqueue is logged
NotifyMoved ==
    /\ pc = "notify"
    /\ trace' = Append(trace, Op("notify", Cur.client_id, Cur.client_id, 0, <<>>,
                                 <<moved_message>>, <<>>))
    /\ Goto(StepAfter("notify"))
    /\ returned' = <<>>
    /\ UNCHANGED conn_vars
    /\ UNCHANGED <<should_refresh, skip_sleep, events, closed, sender, kv, clients, name,
                   create_new, target_channel, cause, logged_out, config>>

\* the engine moves itself back to the client's channel
MoveSelfOut ==
    /\ pc = "self_move"
    /\ \E ok \in BOOLEAN :
         /\ trace' = Append(trace, Op("clientmove", Cur.client_id, who_am_i.client_id,
                                      Cur.channel_id, <<>>, <<>>,
                                      IF ok THEN <<>> ELSE <<"err">>))
         /\ IF ok
            THEN Goto(StepAfter("self_move")) /\ cause' = cause
            ELSE Abort("self_move") /\ idx' = idx
    /\ returned' = <<>>
    /\ events' = Receiver(events)
    /\ UNCHANGED conn_vars
    /\ UNCHANGED <<should_refresh, skip_sleep, closed, sender, kv, clients, name,
                   create_new, target_channel, logged_out, config>>

\* the monitored channel stored in place of the created one
CacheValueOfParent == to_string(Cur.channel_id)

\* the value stored for a provisioned client
CacheValue == to_string(target_channel)

CacheSet ==
    /\ pc = "set"
    /\ LET key == ScanKey(Cur)
       IN /\ trace' = Append(trace, Op("cache_set", Cur.client_id, 0, 0, key, <<>>,
                                       <<CacheValue>>))
          /\ \E ok \in BOOLEAN :
               IF ok
               THEN /\ kv' = [kv EXCEPT ![key] = <<CacheValue>>]
                    /\ Goto(StepAfter("set"))
                    /\ cause' = cause
               ELSE /\ Abort("cache_set")
                    /\ UNCHANGED <<kv, idx>>
    /\ returned' = <<>>
    /\ events' = Receiver(events)
    /\ UNCHANGED conn_vars
    /\ UNCHANGED <<should_refresh, skip_sleep, closed, sender, clients, name,
                   create_new, target_channel, logged_out, config>>

\* after the last client: the user map is refreshed when enabled, and only
\* then is the refresh request cleared
ScanEnd ==
    /\ pc = "client"
    /\ idx > Len(clients)
    /\ pc' = "loop"
    /\ IF config.user_map
       THEN /\ \E channels_ok \in BOOLEAN : should_refresh' = FALSE
            /\ trace' = <<Op("channellist", 0, 0, 0, <<>>, <<>>, <<>>)>>
       ELSE /\ should_refresh' = should_refresh
            /\ trace' = <<>>
    /\ returned' = <<>>
    /\ UNCHANGED conn_vars
    /\ UNCHANGED <<skip_sleep, events, closed, sender, kv, scan_vars, cause, logged_out,
                   config>>

(* ------------------------------ handle -------------------------------- *)

\* the engine has returned: its receiver is dropped
ReceiverDropped == pc \in {"done", "aborted"}

\* the match without its second arm
send_signal_returns_unmatched == IF ReceiverDropped THEN "Err" ELSE "Ok(true)"

\* Result<bool> of send_signal: Ok(false) without a sender, Err once the
\* receiver is dropped, Ok(true) when the event is in the channel
send_signal_returns ==
    IF ~sender THEN "Ok(false)"
    ELSE IF ReceiverDropped THEN "Err" ELSE "Ok(true)"

\* sender.send(signal): waits for room, fails once the receiver is dropped
send_signal(signal) ==
    /\ ~closed
    /\ IF sender /\ ~ReceiverDropped
       THEN /\ Len(events) < MaxQueue
            /\ events' = Append(events, signal)
       ELSE events' = events
    /\ UNCHANGED conn_vars
    /\ UNCHANGED <<pc, should_refresh, skip_sleep, closed, sender, kv, scan_vars, trace,
                   cause, logged_out, config>>

\* .map(|_| ()): the flag is dropped
send_terminate ==
    /\ send_signal(Terminate)
    /\ returned' = <<"send_terminate",
                     IF send_signal_returns = "Err" THEN "Err" ELSE "Ok(())">>

send_delete ==
    /\ \E user_id \in {2}, uid \in {"abc"} : send_signal(DeleteChannel(user_id, uid))
    /\ returned' = <<"send_delete", send_signal_returns>>

\* every view passed on as an Update
RoutedUnfiltered(view) == Update(view)

\* the event send() routes a view to
Routed(view) ==
    IF \E i \in 1..Len(monitor_channels) : monitor_channels[i] = view.channel_id
    THEN Update(view)
    ELSE ShouldRefresh

\* Result<bool> of send: false without a sender and after a ShouldRefresh
send_returns(view) ==
    IF ~sender THEN "Ok(false)"
    ELSE IF Routed(view).type = "ShouldRefresh"
         THEN (IF send_signal_returns = "Err" THEN "Err" ELSE "Ok(false)")
         ELSE send_signal_returns

send ==
    \E view \in Views :
      /\ IF ~sender
         THEN /\ ~closed
              /\ UNCHANGED conn_vars
              /\ UNCHANGED <<pc, should_refresh, skip_sleep, events, closed, sender, kv,
                             scan_vars, trace, cause, logged_out, config>>
         ELSE send_signal(Routed(view))
      /\ returned' = <<"send", send_returns(view)>>

\* valid()
valid == sender

\* the handle and its clones are dropped
DropSenders ==
    /\ sender
    /\ ~closed
    /\ closed' = TRUE
    /\ returned' = <<>>
    /\ UNCHANGED conn_vars
    /\ UNCHANGED <<pc, should_refresh, skip_sleep, events, sender, kv, scan_vars, trace,
                   cause, logged_out, config>>

(* ---------------------------- SocketConn ------------------------------ *)

\* the commands of the session operations that go through write_and_read
Commands == {"whoami", "clientlist"}

\* a request on the stream; stale once a later call has written to the stream
Request(cmd) == [cmd |-> cmd, stale |-> FALSE]

Stale(requests) ==
    [i \in 1..Len(requests) |-> [requests[i] EXCEPT !.stale = TRUE]]

\* write_data(payload): the command lines of the payload go out after
\* whatever is still unanswered or unread
write_data(payload) ==
    /\ Len(outstanding) + Len(payload) <= MaxOutstanding
    /\ outstanding' = Stale(outstanding) \o [i \in 1..Len(payload) |-> Request(payload[i])]

\* the connection is used through &mut self: one call at a time
ConnFree == exchange.phase # "written"

\* write_and_read, first half: the command is written
WriteCommand ==
    /\ ConnFree
    /\ \E cmd \in Commands :
         /\ write_data(<<cmd>>)
         /\ exchange' = [cmd |-> cmd, phase |-> "written", reply |-> <<>>]
    /\ UNCHANGED <<arrived, input, output, read_vars>>
    /\ UNCHANGED engine_vars

\* write_and_read, second half: read_data returns what has arrived, or None
\* when nothing arrived within 2 s, which write_and_read turns into an error
ReadResponse ==
    /\ exchange.phase = "written"
    /\ IF arrived = 0
       THEN /\ exchange' = [exchange EXCEPT !.phase = "timeout"]
            /\ UNCHANGED <<outstanding, arrived>>
       ELSE /\ exchange' = [exchange EXCEPT !.phase = "read",
                                            !.reply = SubSeq(outstanding, 1, arrived)]
            /\ outstanding' = SubSeq(outstanding, arrived + 1, Len(outstanding))
            /\ arrived' = 0
    /\ UNCHANGED <<input, output, read_vars>>
    /\ UNCHANGED engine_vars

\* write_data("whoami\n\rbanlist\n\r"): two commands, no read
send_keepalive ==
    /\ ConnFree
    /\ write_data(<<"whoami", "banlist">>)
    /\ exchange' = [cmd |-> "keepalive", phase |-> "sent", reply |-> <<>>]
    /\ UNCHANGED <<arrived, input, output, read_vars>>
    /\ UNCHANGED engine_vars

\* write_data of a sendtextmessage command, no read
send_text_message_unchecked ==
    /\ ConnFree
    /\ write_data(<<"sendtextmessage">>)
    /\ exchange' = [cmd |-> "sendtextmessage", phase |-> "sent", reply |-> <<>>]
    /\ UNCHANGED <<arrived, input, output, read_vars>>
    /\ UNCHANGED engine_vars

\* the server answers the requests in the order they were written
ServerResponds ==
    /\ arrived < Len(outstanding)
    /\ arrived' = arrived + 1
    /\ UNCHANGED <<outstanding, exchange, input, output, read_vars>>
    /\ UNCHANGED engine_vars

(* ------------------------------ codec --------------------------------- *)

\* a text is a sequence of characters; the words the decoder looks for
\* ("error ", "id=0", "id=771", "Welcome") and a data row are single tokens

\* str::replace for a one-character pattern
RECURSIVE replace(_, _, _)
replace(s, from, to) ==
    IF s = <<>> THEN <<>>
    ELSE (IF Head(s) = from THEN to ELSE <<Head(s)>>) \o replace(Tail(s), from, to)

\* the three passes in another order: the backslash last
escape_backslash_last(s) ==
    replace(replace(replace(s, " ", <<"\\", "s">>), "/", <<"\\", "/">>),
            "\\", <<"\\", "\\">>)

escape(s) ==
    replace(replace(replace(s, "\\", <<"\\", "\\">>), " ", <<"\\", "s">>),
            "/", <<"\\", "/">>)

Whitespace == {"\r", "\n", " "}

RECURSIVE trim_start(_)
trim_start(s) ==
    IF s # <<>> /\ Head(s) \in Whitespace THEN trim_start(Tail(s)) ELSE s

RECURSIVE trim_end(_)
trim_end(s) ==
    IF s # <<>> /\ s[Len(s)] \in Whitespace THEN trim_end(SubSeq(s, 1, Len(s) - 1)) ELSE s

trim(s) == trim_end(trim_start(s))

\* a line ending is "\n" or "\r\n"
strip_cr(line) ==
    IF line # <<>> /\ line[Len(line)] = "\r" THEN SubSeq(line, 1, Len(line) - 1) ELSE line

RECURSIVE lines_from(_, _)
lines_from(rest, cur) ==
    IF rest = <<>> THEN (IF cur = <<>> THEN <<>> ELSE <<cur>>)
    ELSE IF Head(rest) = "\n" THEN <<strip_cr(cur)>> \o lines_from(Tail(rest), <<>>)
         ELSE lines_from(Tail(rest), Append(cur, Head(rest)))

\* str::lines
lines(content) == lines_from(content, <<>>)

\* starts_with("error ") of a trimmed line: the blank of the prefix survives
\* trim() only when something follows it
starts_with_error(line) == Len(line) >= 2 /\ Head(line) = "error "

IdTokens == {"id=0", "id=771"}

\* content.contains("error id=")
contains_error_id(content) ==
    \E i \in 1..(Len(content) - 1) : content[i] = "error " /\ content[i + 1] \in IdTokens

contains_welcome(content) == \E i \in 1..Len(content) : content[i] = "Welcome"

\* the condition of the debug_assert! at the head of decode_status
debug_condition(content) == ~contains_welcome(content) /\ contains_error_id(content)

\* QueryStatus::try_from(line): the code of a status line, <<>> when the line
\* does not parse
QueryStatus_try_from(line) ==
    LET l == trim(line)
    IN IF Len(l) >= 2 /\ l[1] = "error " /\ l[2] \in IdTokens
       THEN <<IF l[2] = "id=0" THEN 0 ELSE NameInUse>>
       ELSE <<>>

Ok(content) == [kind |-> "ok", code |-> 0, text |-> content]
Err(kind, code) == [kind |-> kind, code |-> code, text |-> <<>>]

\* QueryStatus::into_result(content)
into_result(status, content) ==
    IF status = 0 THEN Ok(content) ELSE Err("err", status)

RECURSIVE scan_status(_, _)
\* the loop of decode_status over the lines still to look at
scan_status(ls, content) ==
    IF ls = <<>> THEN Err("empty", 0)
    ELSE IF starts_with_error(trim(Head(ls)))
         THEN (IF QueryStatus_try_from(Head(ls)) = <<>>
               THEN Err("parse", 0)
               ELSE into_result(QueryStatus_try_from(Head(ls))[1], content))
         ELSE scan_status(Tail(ls), content)

\* decode_status in a build with (debug) or without debug assertions
decode_status(content, debug) ==
    IF debug /\ ~debug_condition(content) THEN Err("panic", 0)
    ELSE scan_status(lines(content), content)

\* the texts of at most n characters over an alphabet
TextsOver(alphabet, n) == UNION { [1..k -> alphabet] : k \in 0..n }

EscapeTexts == TextsOver({"\\", " ", "/", "s"}, MaxText)

Contents == TextsOver({"\n", "\r", "error ", "id=0", "id=771", "row", "Welcome"}, MaxText)

Applied(fn, debug, r) ==
    [fn |-> fn, debug |-> debug, kind |-> r.kind, code |-> r.code, text |-> r.text]

DecodeStatus ==
    /\ output = NoOutput
    /\ input \in Contents
    /\ \E debug \in BOOLEAN :
         output' = Applied("decode_status", debug, decode_status(input, debug))
    /\ UNCHANGED <<outstanding, arrived, exchange, input, read_vars>>
    /\ UNCHANGED engine_vars

Escape ==
    /\ output = NoOutput
    /\ input \in EscapeTexts
    /\ output' = Applied("escape", FALSE, Ok(escape(input)))
    /\ UNCHANGED <<outstanding, arrived, exchange, input, read_vars>>
    /\ UNCHANGED engine_vars

(* ----------------------------- read_data ------------------------------ *)

\* one element of a text counts as one byte of the stream

\* the responses of the server: a status line, one or two data rows before it
Responses ==
    { <<"error ", "id=0", "\n", "\r">>,
      <<"row", "\n", "\r", "error ", "id=0", "\n", "\r">>,
      <<"row", "row", "\n", "\r", "error ", "id=771", "\n", "\r">> }

\* ret.ends_with("\n\r")
ends_with_terminator(text) ==
    Len(text) >= 2 /\ text[Len(text) - 1] = "\n" /\ text[Len(text)] = "\r"

\* the break condition of the loop of read_data
read_complete(size, text) ==
    size < BUFFER_SIZE \/ (contains_error_id(text) /\ ends_with_terminator(text))

Min(a, b) == IF a < b THEN a ELSE b

\* a command was written and read_data is called: the server answers the
\* command with one response, behind whatever is still in the stream
CallReadData ==
    /\ ~reading
    /\ \E r \in Responses :
         /\ Len(wire) + Len(socket) + Len(r) <= MaxWire
         /\ wire' = wire \o r
    /\ reading' = TRUE
    /\ accumulated' = <<>>
    /\ read_result' = NoRead
    /\ UNCHANGED socket
    /\ UNCHANGED <<outstanding, arrived, exchange, input, output>>
    /\ UNCHANGED engine_vars

\* the network hands the next bytes to the socket, in segments of any size
Deliver ==
    /\ wire # <<>>
    /\ \E k \in 1..Len(wire) :
         /\ socket' = socket \o SubSeq(wire, 1, k)
         /\ wire' = SubSeq(wire, k + 1, Len(wire))
    /\ UNCHANGED <<reading, accumulated, read_result>>
    /\ UNCHANGED <<outstanding, arrived, exchange, input, output>>
    /\ UNCHANGED engine_vars

\* one pass of the loop with bytes at the socket: conn.read fills the buffer
\* with what is there, ret grows, and the loop ends by the break condition
ReadChunk ==
    /\ reading
    /\ socket # <<>>
    /\ LET size == Min(Len(socket), BUFFER_SIZE)
           text == accumulated \o SubSeq(socket, 1, size)
       IN /\ socket' = SubSeq(socket, size + 1, Len(socket))
          /\ IF read_complete(size, text)
             THEN /\ reading' = FALSE
                  /\ accumulated' = <<>>
                  /\ read_result' = [kind |-> "Some", text |-> text]
             ELSE /\ reading' = TRUE
                  /\ accumulated' = text
                  /\ read_result' = read_result
    /\ UNCHANGED wire
    /\ UNCHANGED <<outstanding, arrived, exchange, input, output>>
    /\ UNCHANGED engine_vars

\* one pass of the loop with no byte at the socket for 2 s: Ok(None), and
\* the local ret goes out of scope
ReadTimeout ==
    /\ reading
    /\ socket = <<>>
    /\ reading' = FALSE
    /\ accumulated' = <<>>
    /\ read_result' = [kind |-> "None", text |-> <<>>]
    /\ UNCHANGED <<wire, socket>>
    /\ UNCHANGED <<outstanding, arrived, exchange, input, output>>
    /\ UNCHANGED engine_vars

\* conn.read fails: read_data returns the error
ReadError ==
    /\ reading
    /\ reading' = FALSE
    /\ accumulated' = <<>>
    /\ read_result' = [kind |-> "Err", text |-> <<>>]
    /\ UNCHANGED <<wire, socket>>
    /\ UNCHANGED <<outstanding, arrived, exchange, input, output>>
    /\ UNCHANGED engine_vars

(* --------------------------- specification ---------------------------- *)

Engine ==
    \/ Bootstrap
    \/ LoopTop
    \/ RecvTerminate
    \/ RecvUpdate
    \/ RecvDeleteChannel
    \/ RecvShouldRefresh
    \/ RecvClosed
    \/ TimerExpiry
    \/ QueryClients
    \/ ClientStart
    \/ CreateChannel
    \/ SetClientChannelGroup
    \/ AddDefaultPermission
    \/ AddChannelPermissions
    \/ MoveClient
    \/ NotifyMoved
    \/ MoveSelfOut
    \/ CacheSet
    \/ ScanEnd
    \/ Logout

Handle ==
    \/ send_terminate
    \/ send_delete
    \/ send
    \/ DropSenders

Next == Engine \/ Handle

Spec == Init /\ [][Next]_vars

\* the engine is a task the runtime keeps scheduling; the 30 s timer always
\* expires
FairSpec == Spec /\ WF_vars(Engine)

\* no engine is attached
NoEngine ==
    /\ EngineInit
    /\ ~sender
    /\ config = [mute_porter |-> FALSE, user_map |-> FALSE]

ConnInit ==
    /\ NoEngine
    /\ outstanding = <<>>
    /\ arrived = 0
    /\ exchange = NoExchange
    /\ input = <<>>
    /\ output = NoOutput
    /\ StreamAtRest

ConnNext ==
    \/ WriteCommand
    \/ ReadResponse
    \/ send_keepalive
    \/ send_text_message_unchecked
    \/ ServerResponds

\* one SocketConn, its caller and the server
ConnSpec == ConnInit /\ [][ConnNext]_vars

CodecInit ==
    /\ NoEngine
    /\ outstanding = <<>>
    /\ arrived = 0
    /\ exchange = NoExchange
    /\ input \in EscapeTexts \cup Contents
    /\ output = NoOutput
    /\ StreamAtRest

CodecNext ==
    \/ DecodeStatus
    \/ Escape

\* the pure functions of the codec, each applied to every text of the bound
CodecSpec == CodecInit /\ [][CodecNext]_vars

ReadInit == ConnInit

ReadNext ==
    \/ CallReadData
    \/ Deliver
    \/ ReadChunk
    \/ ReadTimeout
    \/ ReadError

\* read_data over a stream the server answers on
ReadSpec == ReadInit /\ [][ReadNext]_vars

(* ------------------------------ claims -------------------------------- *)

Last(seq) == seq[Len(seq)]

HasOp(op) == \E i \in 1..Len(trace) : trace[i].op = op

\* the trace is that of one client's processing in a scan
ScanTrace == trace # <<>> /\ trace[1].op = "cache_get"

\* the client the scan trace is about
Served == clients[CHOOSE i \in 1..Len(clients) : clients[i].client_id = trace[1].c]

\* the cache answered the lookup with a channel id
CacheHit ==
    /\ ScanTrace
    /\ trace[1].text = <<>>
    /\ trace[1].val # <<>>
    /\ Parse(trace[1].val[1]) # <<>>

\* the cache answered the lookup with nothing
CacheMiss ==
    /\ ScanTrace
    /\ trace[1].text = <<>>
    /\ trace[1].val = <<>>

CachedId == Parse(trace[1].val[1])[1]

\* C1: a client in a monitored channel whose key (database id, server id,
\* current channel) has a cache entry is moved to the cached channel id, and
\* no channelcreate is issued for it, in every scan.
C1_CacheHitMovesWithoutCreate ==
    CacheHit =>
        /\ trace[1].key = build_redis_key(Served.client_database_id, server_id,
                                          Served.channel_id)
        /\ InMonitor(Served.channel_id)
        /\ ~HasOp("channelcreate")
        /\ pc # "create"
        /\ IF Len(trace) = 1
           THEN pc = "move" /\ ~create_new /\ target_channel = CachedId
           ELSE /\ trace[2].op = "clientmove"
                /\ trace[2].who = Served.client_id
                /\ trace[2].ch = CachedId

C1_Witness ==
    /\ CacheHit
    /\ Len(trace) >= 2
    /\ trace[2].op = "clientmove"
    /\ trace[2].val = <<>>

\* position of a call in one client's provisioning
Rank(e) ==
    CASE e.op = "cache_get" -> 0
      [] e.op = "channelcreate" -> 1
      [] e.op = "setclientchannelgroup" -> 2
      [] e.op = "channeladdperm" -> 3
      [] e.op = "channeladdperm_extra" -> 4
      [] e.op = "clientmove" /\ e.who = e.c -> 5
      [] e.op = "notify" -> 6
      [] e.op = "clientmove" /\ e.who = who_am_i.client_id /\ e.who # e.c -> 7
      [] e.op = "cache_set" -> 8
      [] OTHER -> 9

\* the call that has to come right before a call of rank r
RankBefore(r) ==
    CASE r = 1 -> {0, 1}
      [] r = 2 -> {1}
      [] r = 3 -> {2}
      [] r = 4 -> {3}
      [] r = 5 -> IF HasPermissions(Served.channel_id) THEN {4} ELSE {3}
      [] r = 6 -> {5}
      [] r = 7 -> {6}
      [] r = 8 -> {7}
      [] OTHER -> 0..9

\* C2: in a fresh provisioning the calls come in the order creation, channel
\* group, default permission, configured permissions, move of the client,
\* notification, move of the engine back to the client's channel, cache set;
\* each is issued right after its predecessor, and every call of the trace is
\* made for the one client being served.
C2_ProvisioningOrder ==
    CacheMiss =>
        /\ \A i \in 2..Len(trace) :
             /\ Rank(trace[i - 1]) \in RankBefore(Rank(trace[i]))
             /\ trace[i].c = Served.client_id
        /\ \A i \in 1..Len(trace) :
             /\ (Rank(trace[i]) = 5 /\ trace[i].val = <<>>) => trace[i].ch \in NewCids
             /\ Rank(trace[i]) = 7 => trace[i].ch = Served.channel_id

C2_Witness ==
    /\ CacheMiss
    /\ Rank(Last(trace)) = 8
    /\ HasOp("channeladdperm_extra")
    /\ Len(trace) = 9

\* a move of the served client that failed with the invalid-channel code
StaleAt(i) ==
    /\ trace[i].op = "clientmove"
    /\ trace[i].who = trace[i].c
    /\ trace[i].val = <<to_string(InvalidChannel)>>

\* C3 (state part): after a move failed with 768 the one further call made for
\* the client is the delete of its cache key: no notification, no self-move,
\* no cache set; unless the delete failed, the entry is gone, skip_sleep is set
\* and the scan is at the next client.  The engine never waits with skip_sleep
\* set.
C3_StaleState ==
    /\ ScanTrace =>
         \A i \in 1..Len(trace) :
           StaleAt(i) =>
             /\ Len(trace) = i + 1
             /\ trace[i + 1].op = "cache_delete"
             /\ trace[i + 1].key = trace[1].key
             /\ \/ pc = "aborted" /\ cause = "cache_delete"
                \/ /\ pc = "client"
                   /\ skip_sleep
                   /\ kv[trace[1].key] = <<>>
    /\ skip_sleep => pc \notin {"wait", "logout", "done"}

\* C3 (step part): skip_sleep stays set until the top of the loop, and from
\* there the next step of the engine is the client list query of a new scan,
\* with no event taken from the channel.
C3_StaleStep ==
    /\ (skip_sleep /\ pc \notin {"loop", "boot"}) => skip_sleep'
    /\ (skip_sleep /\ pc = "move") => pc' \in {"move", "client", "notify", "aborted"}
    /\ (skip_sleep /\ pc = "client") =>
          pc' \in {"client", "create", "move", "loop", "aborted"}
    /\ (skip_sleep /\ pc = "loop" /\ pc' # pc) =>
          /\ pc' = "query"
          /\ Len(events') >= Len(events)

\* C3: stale-cache recovery.
C3_StaleCacheRecovery == []C3_StaleState /\ [][C3_StaleStep]_vars

C3_Witness ==
    /\ CacheHit
    /\ Len(trace) = 3
    /\ StaleAt(2)
    /\ pc = "client"
    /\ skip_sleep
    /\ idx <= Len(clients)

KeyChannels == { to_string(monitor_channels[i]) : i \in 1..Len(monitor_channels) }

\* C4: every channelcreate has a monitored parent, every cache call of a scan
\* uses a key whose channel component is monitored, and no call of a scan is
\* made for a client that is the engine itself, is of query type or sits
\* outside the monitored channels.
C4_MonitoredOnly ==
    /\ \A i \in 1..Len(trace) :
         /\ trace[i].op = "channelcreate" => InMonitor(trace[i].ch)
         /\ (trace[i].op \in {"cache_get", "cache_set", "cache_delete"}) =>
               trace[i].key[4] \in KeyChannels
    /\ ScanTrace =>
         /\ Served.client_database_id # who_am_i.client_database_id
         /\ Served.client_type # 1
         /\ InMonitor(Served.channel_id)
         /\ \A i \in 1..Len(trace) : trace[i].c = Served.client_id
    /\ (pc \in {"create", "group", "perm", "perm_extra", "move", "notify", "self_move",
                "set"}) =>
         /\ ScanTrace
         /\ Cur = Served

C4_Witness ==
    /\ ScanTrace
    /\ HasOp("channelcreate")
    /\ Last(trace).op = "cache_set"
    /\ Served.channel_id = 11

Creates == { i \in 1..Len(trace) : trace[i].op = "channelcreate" }

Ones(n) == [j \in 1..n |-> "1"]

\* C5 as stated: once the retry loop has been left after a name collision, a
\* name has been accepted and a channel created.
C5_RetryEndsAccepted ==
    (CacheMiss /\ Cardinality(Creates) >= 2 /\ pc # "create") =>
        target_channel \in NewCids

\* C5, amended: the k-th attempt carries the first name followed by k-1 "1"s
\* and the client's channel as parent; the loop ends with the first answer
\* other than 771: on success the next steps are made on the channel that
\* answer names, on another error no further step is made for the client.
C5_RetryNames ==
    CacheMiss =>
        /\ \A i \in Creates :
             /\ i >= 2
             /\ \A j \in 2..i : j \in Creates
             /\ trace[i].text = FirstName(Served) \o Ones(i - 2)
             /\ trace[i].ch = Served.channel_id
             /\ i > 2 => Len(trace[i].text) = Len(trace[i - 1].text) + 1
        /\ pc = "create" =>
             /\ Creates = 2..Len(trace)
             /\ name = FirstName(Served) \o Ones(Len(trace) - 1)
        /\ (pc # "create" /\ Creates # {}) =>
             LET k == Cardinality(Creates) + 1
             IN \/ /\ target_channel \in NewCids
                   /\ IF Len(trace) = k
                      THEN pc = "group"
                      ELSE trace[k + 1].op = "setclientchannelgroup"
                   /\ \A i \in (k + 1)..Len(trace) :
                        Rank(trace[i]) \in 2..5 => trace[i].ch = target_channel
                \/ /\ target_channel = 0
                   /\ Len(trace) = k
                   /\ pc = "client"

C5_Witness ==
    /\ CacheMiss
    /\ Cardinality(Creates) = 3
    /\ HasOp("setclientchannelgroup")
    /\ HasOp("clientmove")

FatalCauses ==
    {"resolve_uid", "self_move", "cache_get", "cache_set", "cache_delete", "mute_porter"}

\* C6: whichever way auto_channel_staff has returned (Terminate, closed
\* channel, or one of the fatal errors), a logout has been attempted.
C6_LogoutOnEveryExit ==
    (pc = "done" \/ (pc = "aborted" /\ cause \in FatalCauses)) => logged_out

TerminateQueued == \E i \in 1..Len(events) : events[i].type = "Terminate"

Returned == pc \in {"done", "aborted"}

C7_Step ==
    /\ events' # events =>
         \/ \E e \in {Terminate, ShouldRefresh} \cup { Update(v) : v \in Views }
                     \cup { DeleteChannel(2, "abc") } : events' = Append(events, e)
         \/ /\ pc = "wait"
            /\ events # <<>>
            /\ events' = Tail(events)
            /\ trace'[1] = Consumed(Head(events))
         \/ /\ pc' \in {"done", "aborted"}
            /\ events' = <<>>
    /\ (/\ pc = "wait"
        /\ events # <<>>
        /\ Head(events).type = "Terminate"
        /\ events' = Tail(events)) =>
         pc' = "logout"
    /\ pc = "logout" => (pc' = "logout" \/ (pc' = "done" /\ logged_out'))
    /\ pc = "done" => pc' = "done"

ConsumesHead(type) ==
    /\ pc = "wait"
    /\ events # <<>>
    /\ Head(events).type = type
    /\ events' = Tail(events) \/ (pc' = "aborted" /\ events' = <<>>)

\* C8 (step): consuming DeleteChannel(requester, uid) either aborts the session
\* on a failed resolution, with no delete and no notification, or issues one
\* cache delete per monitored channel for the resolved database id, in order
\* and whether or not earlier ones failed, then one "Received." notification
\* to the requester; no other key of the cache changes.
C8_Step ==
    ConsumesHead("DeleteChannel") =>
        LET ev == Head(events)
            n == Len(monitor_channels)
            keys == { build_redis_key(DbIdOfUid(ev.uid), server_id, monitor_channels[i]) :
                        i \in 1..n }
        IN \/ /\ pc' = "aborted"
              /\ cause' = "resolve_uid"
              /\ kv' = kv
              /\ \A i \in 1..Len(trace') : trace'[i].op \notin {"cache_delete", "notify"}
           \/ /\ pc' # "aborted"
              /\ Len(trace') = n + 3
              /\ \A i \in 1..n :
                   /\ trace'[i + 2].op = "cache_delete"
                   /\ trace'[i + 2].key =
                        build_redis_key(DbIdOfUid(ev.uid), server_id, monitor_channels[i])
                   /\ trace'[i + 2].text = <<>> => kv'[trace'[i + 2].key] = <<>>
              /\ trace'[n + 3].op = "notify"
              /\ trace'[n + 3].who = ev.client_id
              /\ trace'[n + 3].text = <<"Received.">>
              /\ \A k \in AllKeys : kv'[k] # kv[k] => (k \in keys /\ kv'[k] = <<>>)

\* C8: DeleteChannel handling.
C8_DeleteChannel == [][C8_Step]_vars

C8_Witness ==
    /\ pc = "query"
    /\ Len(trace) = Len(monitor_channels) + 3
    /\ trace[1].text[1] = "DeleteChannel"
    /\ trace[3].text = <<"err">>
    /\ trace[4].text = <<>>
    /\ Last(trace).op = "notify"

TimerExpired ==
    /\ pc = "wait"
    /\ events = <<>>
    /\ pc' \in {"loop", "query"}

C10_MutePorterNeverFatal == ~(pc = "aborted" /\ cause = "mute_porter")

\* C11: on one SocketConn at most one request is outstanding, no command is
\* written while an earlier response is unread (a read that timed out included),
\* and an operation decodes the response to the command it wrote.
C11_HalfDuplex ==
    /\ Len(outstanding) <= 1
    /\ exchange.phase = "written" => outstanding = <<Request(exchange.cmd)>>
    /\ exchange.phase = "read" => exchange.reply = <<Request(exchange.cmd)>>

\* the lines of the text that are status lines
StatusLinesOf(text) ==
    { i \in 1..Len(lines(text)) :
        LET l == trim(lines(text)[i]) IN Len(l) >= 2 /\ l[1] = "error " }

\* C12: decode_status returns success when the first status line of the
\* response carries code 0, one error carrying n when it carries a nonzero
\* code n, and the empty-response error when the response has no status line.
C12_StatusDecoding ==
    output.fn = "decode_status" =>
        IF StatusLinesOf(input) = {}
        THEN output.kind = "empty"
        ELSE LET first == CHOOSE i \in StatusLinesOf(input) :
                              \A j \in StatusLinesOf(input) : i <= j
                 code == trim(lines(input)[first])[2]
             IN /\ code = "id=0" => output.kind = "ok"
                /\ code = "id=771" => (output.kind = "err" /\ output.code = 771)

RECURSIVE Unescape(_)
\* the inverse mapping, read from the left: a backslash and the character
\* after it stand for one character
Unescape(text) ==
    IF text = <<>> THEN <<>>
    ELSE IF Head(text) = "\\" /\ Len(text) >= 2
         THEN <<CASE text[2] = "\\" -> "\\"
                  [] text[2] = "s" -> " "
                  [] text[2] = "/" -> "/"
                  [] OTHER -> "?">> \o Unescape(SubSeq(text, 3, Len(text)))
         ELSE <<Head(text)>> \o Unescape(Tail(text))

RECURSIVE BackslashesBefore(_, _)
\* the length of the run of backslashes that ends right before position i
BackslashesBefore(text, i) ==
    IF i > 1 /\ text[i - 1] = "\\" THEN 1 + BackslashesBefore(text, i - 1) ELSE 0

\* C13: escape is defined on every text, the inverse mapping takes the
\* escaped text back to the text, and the escaped text holds no raw space and
\* no slash without an escaping backslash before it.
C13_EscapeRoundTrips ==
    output.fn = "escape" =>
        /\ Unescape(output.text) = input
        /\ \A i \in 1..Len(output.text) :
             /\ output.text[i] # " "
             /\ output.text[i] = "/" => BackslashesBefore(output.text, i) % 2 = 1

C13_Witness ==
    /\ output.fn = "escape"
    /\ input = <<"\\", "s", " ", "/", "\\">>
    /\ Len(output.text) = 9

\* C14 as stated: on a handle without a sender no call enqueues an event or
\* fails, and each reports false.
C14_UnboundReportsFalse ==
    ~sender => (events = <<>> /\ (returned # <<>> => returned[2] = "Ok(false)"))

\* C14, amended: on a handle without a sender no call enqueues an event or
\* fails; send_delete and send report false, send_terminate returns Ok(())
\* as it does for a delivered Terminate.
C14_UnboundInert ==
    ~sender =>
        /\ events = <<>>
        /\ pc = "none"
        /\ returned \in {<<>>, <<"send_terminate", "Ok(())">>,
                         <<"send_delete", "Ok(false)">>, <<"send", "Ok(false)">>}

C14_Witness ==
    /\ ~sender
    /\ events = <<>>
    /\ returned = <<"send_delete", "Ok(false)">>

\* the step is a call of send that returned
SendReturned == returned' # <<>> /\ returned'[1] = "send"

\* one event goes to the end of the channel: Update(view) for a view in a
\* monitored channel, with true returned, ShouldRefresh otherwise, with false
SendRoutes ==
    \E view \in Views :
      /\ events' = Append(events, IF InMonitor(view.channel_id)
                                  THEN Update(view) ELSE ShouldRefresh)
      /\ returned'[2] = IF InMonitor(view.channel_id) THEN "Ok(true)" ELSE "Ok(false)"

C16_ValidIffLive == ~closed => (valid <=> (sender /\ ~ReceiverDropped))

\* the wait of the step ended with no event: the 30 s timer fired
TimerFired ==
    /\ pc = "wait"
    /\ events = <<>>
    /\ ~closed
    /\ pc' # pc

\* the calls of the mute-porter policy
PorterOps == {"clientlist", "clientinfo"}

\* C17: a timer expiry issues one keep-alive, runs the mute-porter policy
\* exactly when it is enabled, then goes to a scan when the refresh flag is
\* set and back to waiting when it is clear; no other step runs the policy.
C17_TimerExpiry ==
    [][/\ TimerFired =>
            /\ trace'[1] = Keepalive
            /\ \A i \in 2..Len(trace') : trace'[i] # Keepalive
            /\ (\E i \in 1..Len(trace') : trace'[i].op \in PorterOps) <=> config.mute_porter
            /\ pc' = IF should_refresh THEN "query" ELSE "loop"
            /\ ~skip_sleep'
            /\ should_refresh' = should_refresh
       /\ (~TimerFired /\ trace' # trace) =>
            \A i \in 1..Len(trace') : trace'[i].op \notin PorterOps]_vars

\* C18: a cache entry is set only for a client whose lookup missed, after the
\* channel created for it in this scan took the client and the engine moved
\* itself back to the client's channel, and the value is the id of that
\* channel; a failing self-move ends the session with no entry written.
C18_CacheSetOnlyWhenProvisioned ==
    [][/\ \A k \in AllKeys :
            (kv'[k] # kv[k] /\ kv'[k] # <<>>) =>
                /\ CacheMiss
                /\ k = trace[1].key
                /\ k = build_redis_key(Served.client_database_id, server_id,
                                       Served.channel_id)
                /\ \E i, j \in 1..Len(trace) :
                     /\ i < j
                     /\ trace[i].op = "channelcreate"
                     /\ Len(trace[i].val) = 1
                     /\ kv'[k] = trace[i].val
                     /\ Rank(trace[j]) = 5
                     /\ trace[j].who = Served.client_id
                     /\ <<to_string(trace[j].ch)>> = trace[i].val
                     /\ trace[j].val = <<>>
                /\ Rank(Last(trace)) = 7
                /\ Last(trace).ch = Served.channel_id
                /\ Last(trace).val = <<>>
                /\ Last(trace').op = "cache_set"
                /\ Last(trace').val = kv'[k]
       /\ (pc' = "aborted" /\ cause' = "self_move") =>
            /\ kv' = kv
            /\ \A i \in 1..Len(trace') : trace'[i].op # "cache_set"]_vars

C18_Witness ==
    /\ pc = "client"
    /\ trace # <<>>
    /\ Last(trace).op = "cache_set"
    /\ kv[Last(trace).key] = <<to_string(31)>>
    /\ cause = ""

\* the step ends the serving of the current client and goes on with the
\* next one, with the cache, the flags and the session as they were
SkipsClient ==
    /\ pc' = "client"
    /\ idx' = idx + 1
    /\ clients' = clients
    /\ kv' = kv
    /\ skip_sleep' = skip_sleep
    /\ should_refresh' = should_refresh
    /\ cause' = cause

\* C19: a creation that fails with a code other than 771 and a move of the
\* client that fails with a code other than 768 are the last call made for
\* that client in the scan; the cache and skip_sleep stay as they are and the
\* scan goes on with the next client.
C19_FailureIsolation ==
    [][/\ (/\ pc = "create"
           /\ trace' # trace
           /\ Len(Last(trace').val) = 2
           /\ Last(trace').val[2] # to_string(NameInUse)) =>
            (SkipsClient /\ trace' = Append(trace, Last(trace')))
       /\ (/\ pc = "move"
           /\ \E i \in (Len(trace) + 1)..Len(trace') :
                /\ trace'[i].op = "clientmove"
                /\ trace'[i].val # <<>>
                /\ trace'[i].val # <<to_string(InvalidChannel)>>) =>
            (SkipsClient /\ trace' = Append(trace, Last(trace'))
                         /\ Last(trace').op = "clientmove")]_vars

C19_Witness ==
    /\ pc = "client"
    /\ idx = 4
    /\ idx <= Len(clients)
    /\ Len(trace) = 3
    /\ trace[2].val = <<"error", to_string(NameInUse)>>
    /\ trace[3].op = "channelcreate"
    /\ trace[3].val = <<"error", to_string(1024)>>
    /\ cause = ""

\* the engine step issues the call op for the served client
Issues(op) ==
    /\ trace' = Append(trace, Last(trace'))
    /\ Last(trace').op = op
    /\ Last(trace').c = Served.client_id
    /\ idx' = idx
    /\ cause' = cause
    /\ kv' = kv

\* C20: after a creation that succeeded, the channel-group assignment, the
\* default permission (133, 75), the configured permissions when the client's
\* channel has some, and the move of the client into the new channel are
\* each issued in turn, whether or not the steps before them failed.
C20_BestEffortPermissions ==
    [][(trace' # trace /\ pc \in {"group", "perm", "perm_extra", "move"}) =>
          CASE pc = "group" ->
                 /\ Issues("setclientchannelgroup")
                 /\ pc' = "perm"
            [] pc = "perm" ->
                 /\ Issues("channeladdperm")
                 /\ Last(trace').val = <<to_string(133), to_string(75)>>
                 /\ pc' = IF Served.channel_id \in DOMAIN channel_permissions
                          THEN "perm_extra" ELSE "move"
            [] pc = "perm_extra" ->
                 /\ Issues("channeladdperm_extra")
                 /\ Served.channel_id \in DOMAIN channel_permissions
                 /\ pc' = "move"
            [] pc = "move" ->
                 /\ trace'[Len(trace) + 1].op = "clientmove"
                 /\ trace'[Len(trace) + 1].who = Served.client_id
                 /\ trace'[Len(trace) + 1].ch = target_channel]_vars

C20_Witness ==
    /\ pc = "notify"
    /\ Len(trace) = 6
    /\ trace[3].op = "setclientchannelgroup"
    /\ trace[3].text = <<"err">>
    /\ trace[4].text = <<"err">>
    /\ trace[5].op = "channeladdperm_extra"
    /\ trace[5].text = <<"err">>
    /\ trace[6].op = "clientmove"
    /\ trace[6].val = <<>>

\* the trace holds one run of the mute porter: the answered client list and
\* the calls made for it
PorterRan ==
    /\ Len(trace) >= 2
    /\ trace[1] = Keepalive
    /\ trace[2].op = "clientlist"
    /\ trace[2].val # <<>>

\* how many calls op the porter run made for client who
PorterCalls(op, who) ==
    Cardinality({ i \in 3..Len(trace) : trace[i].op = op /\ trace[i].who = who })

\* the client-info query for who was answered and reports the client muted
ReportedMuted(who) ==
    \E i \in 3..Len(trace) :
        /\ trace[i].op = "clientinfo"
        /\ trace[i].who = who
        /\ trace[i].text = <<"muted">>

\* human, in the porter's monitor channel, not whitelisted
Eligible(client) ==
    /\ client.client_type = 0
    /\ client.channel_id = mp_monitor_channel
    /\ client.client_database_id \notin mp_whitelist

\* C21: in one run of mute_porter_function a client of the fetched list gets
\* one client-info query exactly when it is human, sits in the monitor channel
\* and is not whitelisted, and one move, to the target channel, exactly when
\* in addition its info was fetched and reports it muted; the run makes no
\* other query or move.
C21_MutePorterSelection ==
    PorterRan =>
        LET list == trace[2].val IN
        /\ \A i \in 3..Len(trace) :
             /\ trace[i].op \in {"clientinfo", "clientmove"}
             /\ \E j \in 1..Len(list) : list[j].client_id = trace[i].who
             /\ trace[i].op = "clientmove" => trace[i].ch = mp_target_channel
        /\ \A j \in 1..Len(list) :
             /\ PorterCalls("clientinfo", list[j].client_id)
                  = IF Eligible(list[j]) THEN 1 ELSE 0
             /\ PorterCalls("clientmove", list[j].client_id)
                  = IF Eligible(list[j]) /\ ReportedMuted(list[j].client_id)
                    THEN 1 ELSE 0

\* a run that moved muted Alice, left the unmuted engine client alone and
\* skipped whitelisted Bob although he sat in the monitor channel
C21_Witness ==
    /\ PorterRan
    /\ \E j \in 1..Len(trace[2].val) :
         /\ trace[2].val[j].client_id = 3
         /\ trace[2].val[j].channel_id = mp_monitor_channel
    /\ PorterCalls("clientmove", 2) = 1
    /\ PorterCalls("clientinfo", 1) = 1
    /\ PorterCalls("clientmove", 1) = 0
    /\ PorterCalls("clientinfo", 3) = 0

\* text is a run of whole responses
RECURSIVE WholeResponses(_)
WholeResponses(text) ==
    \/ text = <<>>
    \/ \E r \in Responses :
         /\ Len(r) <= Len(text)
         /\ SubSeq(text, 1, Len(r)) = r
         /\ WholeResponses(SubSeq(text, Len(r) + 1, Len(text)))

\* the step on which a call of read_data returns
ReadReturns == reading /\ ~reading'

\* C22: when read_data returns data, the text is one complete response, with
\* the status marker and the terminator at its end, and what is left in the
\* stream starts at the head of a response; when it returns "no data yet", no
\* accumulated byte is dropped.
C22_ReadFraming ==
    [][ReadReturns =>
         /\ read_result'.kind = "Some" =>
              /\ read_result'.text \in Responses
              /\ contains_error_id(read_result'.text)
              /\ ends_with_terminator(read_result'.text)
              /\ WholeResponses(socket' \o wire')
         /\ read_result'.kind = "None" => accumulated = <<>>]_vars

\* the step on which a scan ends after its last client
ScanEnds ==
    /\ pc = "client"
    /\ idx > Len(clients)
    /\ pc' = "loop"

\* C23: a scan that runs to its end leaves the refresh flag clear, in every
\* configuration, the user map disabled included, so that a later timer
\* expiry with no new ShouldRefresh goes back to waiting without a scan.
C23_RefreshConsumed == [][ScanEnds => ~should_refresh']_vars

====
